---------------------------- MODULE Spec2Model ----------------------------
(***************************************************************************)
(* Fractionate Edge backend: the llama-server process supervisor           *)
(* (server/models.py, LlamaServerManager), the Florence-2 gate             *)
(* (Florence2Manager), the streaming chat proxy and the document upload    *)
(* pipeline (server/main.py) over the SQLite store (server/database.py).   *)
(*                                                                         *)
(* The backend is one asyncio event loop: a coroutine runs without         *)
(* interruption from one suspension point (an await that really waits) to  *)
(* the next, so every action below is one such segment.  The llama-server  *)
(* child is an operating-system process and moves on its own.              *)
(***************************************************************************)
EXTENDS Integers, Sequences, FiniteSets, TLC

\* ------------------------------------------------------------------ bounds
\* Number of Popen calls the model follows.
MaxSpawns == 2
\* Messages the store holds.
MaxMsgs == 2
\* Content fragments one engine response carries.
MaxTokens == 2
\* Logical clock ticks the model follows (one tick: one 0.5 s poll sleep).
MaxTime == 3
\* Readiness timeout in ticks (120 s in the code, scaled).
ReadyTimeout == 2
\* Messages a conversation holds when the server comes up on its database.
MaxStored == 21

\* stderr[:500] in _wait_for_ready
ExcerptLimit == 500

None == 0
NoTime == -1

ChildIds == 1..MaxSpawns
\* The start() calls that may be in flight together.
Starters == {"s1", "s2"}
\* The conversation ids requests name (each is created at most once).
ConvIds == {"cv1"}
\* The content fragments the engine sends: the response is a, b, a, ...,
\* cut where the engine stops.
Fragment(i) == IF i % 2 = 1 THEN "a" ELSE "b"
\* Word counts of the user messages sent (the fallback title keeps five words).
MsgWords == {2, 5}

\* Lengths of the diagnostic output a child may have left on stderr.
StderrLens == {0, 730}

VARIABLES
  process,     \* LlamaServerManager.process: None or the child's handle
  start_time,  \* LlamaServerManager._start_time
  child,       \* per child: "none" (not spawned), "alive", "exited"
  ready,       \* per child: its /health endpoint answers 200
  now,         \* time.time(), in ticks
  st,          \* per start() call: where the coroutine is, and what it returned
  lastStop,    \* how the stop() that has just ended went ("none": no stop just ended)
  hc,          \* the health_check() call in progress, and what it returned
  made,        \* conversation ids handed out so far (uuid4: never handed out twice)
  convs,       \* rows of the conversations table: the ids that exist
  title,       \* per conversation: its title
  msgs,        \* rows of the messages table, in created_at order
  ch,          \* the chat invocation in progress: the handler and its event stream
  gate,        \* Florence2Manager: is_loaded, and whether model / processor are held
  cache,       \* rows of the document_cache table
  up,          \* per upload call: where the handler is, and what it returned
  firstText    \* per content: the text its first successful upload returned

supVars == <<process, start_time, child, ready, now, st, lastStop, hc>>
chatVars == <<made, convs, title, msgs, ch>>
docVars == <<gate, cache, up, firstText>>

vars == <<process, start_time, child, ready, now, st, lastStop, hc,
          made, convs, title, msgs, ch, gate, cache, up, firstText>>

\* ---------------------------------------------------------------- helpers
Min(a, b) == IF a < b THEN a ELSE b

\* Popen.poll() is None
Polls(k) == child[k] = "alive"

\* Running taken to be: the handle is set.
HasHandle == process # None

\* LlamaServerManager.is_running
is_running == process # None /\ Polls(process)

\* LlamaServerManager.pid
pid == IF is_running THEN process ELSE None

\* LlamaServerManager.uptime_seconds (None when not running)
uptime_seconds == IF is_running /\ start_time # NoTime THEN now - start_time ELSE NoTime

\* LlamaServerManager.get_status: running, pid, uptime
get_status == [running |-> is_running, pid |-> pid, uptime |-> uptime_seconds]

Alive == {k \in ChildIds : child[k] = "alive"}

IdleStart == [pc |-> "idle", deadline |-> 0, wake |-> 0, spawned |-> None,
              result |-> "none", excerpt |-> 0, sawExit |-> FALSE]

\* A start() call that is suspended inside _wait_for_ready.
Polling(c) == st[c].pc \in {"get", "sleep"}

IdleHealth == [pc |-> "idle", running |-> FALSE, result |-> "none"]

\* ------------------------------------------------------------------- Init
SupInit ==
  /\ process = None
  /\ start_time = NoTime
  /\ child = [k \in ChildIds |-> "none"]
  /\ ready = [k \in ChildIds |-> FALSE]
  /\ now = 0
  /\ st = [c \in Starters |-> IdleStart]
  /\ lastStop = "none"
  /\ hc = IdleHealth

IdleChat == [pc |-> "idle", conv |-> "none", words |-> 0, is_first |-> FALSE,
             found |-> FALSE, engine |-> "none", events |-> <<>>, full |-> <<>>, count |-> 0,
             elapsed |-> 0, tps |-> 0, saved |-> FALSE, req |-> "none", sent |-> <<>>,
             titleErr |-> "none", prompt |-> "", end |-> "none",
             result |-> "none"]

ChatInit ==
  /\ made = {}
  /\ convs = {}
  /\ title = [cv \in ConvIds |-> [kind |-> "default", n |-> 0, ellipsis |-> FALSE]]
  /\ msgs = <<>>
  /\ ch = IdleChat

\* The file contents uploaded: a PNG image (not valid UTF-8) and a PDF with
\* a text layer whose bytes are all ASCII (so it also decodes as UTF-8).
Bytes == {"png", "pdf"}
\* PDF contents told apart by page count and text: "pdf" has 2 pages and 120
\* characters, "pdf-edge" 2 and 100, "pdf-scan" 2 and 98, "pdf-thin" 1 and
\* 49, "pdf-long" 3 and 150, "pdf-empty" no page.
PdfDocs == {"pdf", "pdf-edge", "pdf-scan", "pdf-thin", "pdf-long", "pdf-empty"}
\* A Word document: a zip archive, not valid UTF-8.
OfficeDocs == {"docx"}
Contents == Bytes \cup PdfDocs \cup OfficeDocs
\* The file names uploaded, as their characters.
Names == {<<"a", ".", "t", "x", "t">>, <<"b", ".", "P", "N", "G">>, <<"c", ".", "p", "d", "f">>}
\* The upload calls that may be in flight together.
Uploads == {"u1", "u2"}
NoText == [src |-> "none", how |-> "none"]
NoResult == [ok |-> FALSE, err |-> "none", cached |-> FALSE, text |-> NoText,
             method |-> "none", name |-> <<>>, detail |-> <<>>]
Unloaded == [is_loaded |-> FALSE, model |-> FALSE, processor |-> FALSE]

IdleUpload == [pc |-> "idle", bytes |-> "none", name |-> <<>>, prior |-> NoText,
               route |-> "none",
               pending |-> NoResult, result |-> NoResult, extracted |-> FALSE,
               gateLoad |-> FALSE, interfered |-> FALSE, gateAtReturn |-> FALSE]

DocInit ==
  /\ gate = Unloaded
  /\ cache = {}
  /\ up = [u \in Uploads |-> IdleUpload]
  /\ firstText = [b \in Contents |-> NoText]

Init == SupInit /\ ChatInit /\ DocInit

\* ------------------------------------------------------- the child process
\* The child finishes loading the model: /health starts answering 200.
ChildReady(k) ==
  /\ UNCHANGED chatVars
  /\ UNCHANGED docVars
  /\ UNCHANGED hc
  /\ child[k] = "alive"
  /\ ~ready[k]
  /\ ready' = [ready EXCEPT ![k] = TRUE]
  /\ lastStop' = "none"
  /\ UNCHANGED <<process, start_time, child, now, st>>

\* The child exits on its own (crash, bad model file, out of memory).
ChildExit(k) ==
  /\ UNCHANGED chatVars
  /\ UNCHANGED docVars
  /\ UNCHANGED hc
  /\ child[k] = "alive"
  /\ child' = [child EXCEPT ![k] = "exited"]
  /\ ready' = [ready EXCEPT ![k] = FALSE]
  /\ st' = [c \in Starters |->
              IF Polling(c) /\ process = k
                THEN [st[c] EXCEPT !.sawExit = TRUE]
                ELSE st[c]]
  /\ lastStop' = "none"
  /\ UNCHANGED <<process, start_time, now>>

\* Wall-clock time passes.
Tick ==
  /\ UNCHANGED chatVars
  /\ UNCHANGED docVars
  /\ UNCHANGED hc
  /\ now < MaxTime
  /\ now' = now + 1
  /\ lastStop' = "none"
  /\ UNCHANGED <<process, start_time, child, ready, st>>

\* --------------------------------------------------- LlamaServerManager.stop
\* The ways one stop() call can go, given the handle and the child's state:
\*   noop      the handle is None, stop() returns at once
\*   reaped    the child had already exited; terminate() and wait() find it gone
\*   graceful  the child exits within the 10 s wait after terminate()
\*   forced    the 10 s wait expires, kill(), the child exits within 5 s
\*   stuck     the wait after kill() expires too: wait() raises TimeoutExpired
StopPaths ==
  IF process = None THEN {"noop"}
  ELSE IF Polls(process) THEN {"graceful", "forced", "stuck"}
  ELSE {"reaped"}

\* stop() with the two clearing assignments in a finally clause: the handle is
\* dropped on every path, also when the child outlived kill().
StopEffectFinally(p) ==
  /\ process' = None
  /\ start_time' = NoTime
  /\ child' = IF p \in {"graceful", "forced"}
                THEN [child EXCEPT ![process] = "exited"] ELSE child
  /\ ready' = IF p \in {"graceful", "forced"}
                THEN [ready EXCEPT ![process] = FALSE] ELSE ready
  /\ lastStop' = p

\* stop() taking path p.  On "stuck" the exception leaves stop() at the second
\* wait(), before the two assignments that clear the handle and the start time.
StopEffect(p) ==
  /\ process' = IF p \in {"noop", "stuck"} THEN process ELSE None
  /\ start_time' = IF p \in {"noop", "stuck"} THEN start_time ELSE NoTime
  /\ child' = IF p \in {"graceful", "forced"}
                THEN [child EXCEPT ![process] = "exited"] ELSE child
  /\ ready' = IF p \in {"graceful", "forced"}
                THEN [ready EXCEPT ![process] = FALSE] ELSE ready
  /\ lastStop' = p

\* POST /api/models/falcon3-7b/stop and the shutdown hook: stop() when the
\* engine is running (otherwise the endpoint answers not_running).
Stop ==
  /\ UNCHANGED chatVars
  /\ UNCHANGED docVars
  /\ UNCHANGED hc
  /\ is_running
  /\ \E p \in StopPaths : StopEffect(p)
  /\ UNCHANGED <<now, st>>

\* -------------------------------------------------- LlamaServerManager.start
Returned(c, r, x) ==
  [pc |-> "returned", deadline |-> 0, wake |-> 0, spawned |-> st[c].spawned,
   result |-> r, excerpt |-> x, sawExit |-> st[c].sawExit]

\* The child id the next Popen gets.
NextChild == CHOOSE k \in ChildIds : child[k] = "none" /\ \A j \in ChildIds : j < k => child[j] # "none"

\* start() without the is_running test of its first lines: every call with
\* the files in place spawns.
StartCallUnguarded(c) ==
  /\ UNCHANGED chatVars
  /\ UNCHANGED docVars
  /\ UNCHANGED hc
  /\ st[c].pc = "idle"
  /\ lastStop' = "none"
  /\ UNCHANGED <<ready, now>>
  /\ \E k \in ChildIds : child[k] = "none"
  /\ process' = NextChild
  /\ start_time' = now
  /\ child' = [child EXCEPT ![NextChild] = "alive"]
  /\ st' = [st EXCEPT ![c] =
              [pc |-> "get", deadline |-> now + ReadyTimeout,
               wake |-> 0, spawned |-> NextChild,
               result |-> "none", excerpt |-> 0,
               sawExit |-> FALSE]]

\* start() from its first line to its first suspension point.  installed:
\* both the binary and the model file exist.  With the engine not running and
\* the files there, Popen makes a new child, the handle and the start time
\* are set, and _wait_for_ready sends its first health request.
StartCall(c) ==
  /\ UNCHANGED chatVars
  /\ UNCHANGED docVars
  /\ UNCHANGED hc
  /\ st[c].pc = "idle"
  /\ lastStop' = "none"
  /\ UNCHANGED <<ready, now>>
  /\ IF is_running
       THEN /\ st' = [st EXCEPT ![c] = Returned(c, "already", 0)]
            /\ UNCHANGED <<process, start_time, child>>
       ELSE \E installed \in BOOLEAN :
              IF ~installed
                THEN /\ st' = [st EXCEPT ![c] = Returned(c, "FileNotFoundError", 0)]
                     /\ UNCHANGED <<process, start_time, child>>
                ELSE /\ \E k \in ChildIds : child[k] = "none"
                     /\ process' = NextChild
                     /\ start_time' = now
                     /\ child' = [child EXCEPT ![NextChild] = "alive"]
                     /\ st' = [st EXCEPT ![c] =
                                 [pc |-> "get", deadline |-> now + ReadyTimeout,
                                  wake |-> 0, spawned |-> NextChild,
                                  result |-> "none", excerpt |-> 0,
                                  sawExit |-> FALSE]]

\* What GET /health on the fixed port can come back with.  The request goes
\* to the port, not to the handle: whichever child is alive answers.
\*   "ok"        status 200
\*   "not_ok"    another status (the engine is still loading)
\*   "connect"   httpx.ConnectError (nothing listens)
\*   "transport" any other httpx error: ReadTimeout (the client's default
\*               5 s timeout), ReadError, RemoteProtocolError
HealthOutcomes ==
  (IF \E k \in Alive : ready[k] THEN {"ok"} ELSE {"connect"})
  \cup (IF \E k \in Alive : ~ready[k] THEN {"not_ok"} ELSE {})
  \cup {"transport"}

\* _wait_for_ready: the health request of a polling start() completes.
\* 200 returns from _wait_for_ready and start() logs self.process.pid;
\* ConnectError is swallowed; any other httpx error leaves _wait_for_ready
\* and start(), whose only handler is for TimeoutError.  The sleep that
\* follows a failed poll ends one tick later (at once where the model's
\* clock ends).
GetReturn(c) ==
  /\ UNCHANGED chatVars
  /\ UNCHANGED docVars
  /\ UNCHANGED hc
  /\ st[c].pc = "get"
  /\ lastStop' = "none"
  /\ UNCHANGED <<process, start_time, child, ready, now>>
  /\ \E o \in HealthOutcomes :
       st' = [st EXCEPT ![c] =
                CASE o = "ok" -> Returned(c, IF process = None THEN "AttributeError" ELSE "ok", 0)
                  [] o = "transport" -> Returned(c, "TransportError", 0)
                  [] OTHER -> [st[c] EXCEPT !.pc = "sleep", !.wake = Min(now + 1, MaxTime)]]

\* _wait_for_ready: asyncio.sleep(0.5) is over and the loop goes round:
\* the deadline test, then the liveness test on self.process, then the next
\* health request.  Past the deadline TimeoutError is raised and start()
\* runs stop() before re-raising.  n: the characters the exited child left
\* on stderr, of which the first ExcerptLimit go into the RuntimeError.
SleepReturn(c) ==
  /\ UNCHANGED chatVars
  /\ UNCHANGED docVars
  /\ UNCHANGED hc
  /\ st[c].pc = "sleep"
  /\ now >= st[c].wake
  /\ UNCHANGED now
  /\ IF ~(now < st[c].deadline)
       THEN \E p \in StopPaths :
              /\ StopEffect(p)
              /\ st' = [st EXCEPT ![c] =
                          Returned(c, IF p = "stuck" THEN "TimeoutExpired" ELSE "TimeoutError", 0)]
       ELSE /\ lastStop' = "none"
            /\ UNCHANGED <<process, start_time, child, ready>>
            /\ \E n \in StderrLens :
                 st' = [st EXCEPT ![c] =
                          IF process = None
                            THEN Returned(c, "AttributeError", 0)
                          ELSE IF ~Polls(process)
                            THEN Returned(c, "RuntimeError", Min(n, ExcerptLimit))
                          ELSE [st[c] EXCEPT !.pc = "get"]]

\* The caller of start() has its answer; the slot is free for another call.
StartDone(c) ==
  /\ UNCHANGED chatVars
  /\ UNCHANGED docVars
  /\ UNCHANGED hc
  /\ st[c].pc = "returned"
  /\ st' = [st EXCEPT ![c] = IdleStart]
  /\ lastStop' = "none"
  /\ UNCHANGED <<process, start_time, child, ready, now>>

\* ------------------------------------------- LlamaServerManager.health_check
\* health_check up to its suspension point: False at once when is_running is
\* false, otherwise GET /health is sent with a 5 s timeout.
HealthCheckCall ==
  /\ hc.pc = "idle"
  /\ hc' = IF ~is_running
             THEN [pc |-> "returned", running |-> FALSE, result |-> "False"]
             ELSE [pc |-> "get", running |-> TRUE, result |-> "none"]
  /\ UNCHANGED <<process, start_time, child, ready, now, st, lastStop>>
  /\ UNCHANGED chatVars
  /\ UNCHANGED docVars

\* What the health request of health_check can come back with: the outcomes
\* of GET /health, the other httpx errors told apart into
\*   "timeout"  httpx.TimeoutException (connect, read, write or pool timeout)
\*   "other"    any other httpx error: ReadError, RemoteProtocolError (the
\*              child went away with the request in flight)
HealthCheckOutcomes == (HealthOutcomes \ {"transport"}) \cup {"timeout", "other"}

\* The request returns: status 200 gives True, another status False;
\* ConnectError and TimeoutException are caught and give False; any other
\* exception leaves health_check.
HealthCheckReturn ==
  /\ hc.pc = "get"
  /\ \E o \in HealthCheckOutcomes :
       hc' = [hc EXCEPT !.pc = "returned",
                        !.result = CASE o = "ok" -> "True"
                                     [] o \in {"not_ok", "connect", "timeout"} -> "False"
                                     [] OTHER -> "raised"]
  /\ UNCHANGED <<process, start_time, child, ready, now, st, lastStop>>
  /\ UNCHANGED chatVars
  /\ UNCHANGED docVars

\* The caller has its answer.
HealthCheckDone ==
  /\ hc.pc = "returned"
  /\ hc' = IdleHealth
  /\ UNCHANGED <<process, start_time, child, ready, now, st, lastStop>>
  /\ UNCHANGED chatVars
  /\ UNCHANGED docVars

\* health_check beside one start() call, stop() and the child.
HealthNext ==
  \/ HealthCheckCall
  \/ HealthCheckReturn
  \/ HealthCheckDone
  \/ StartCall("s1")
  \/ GetReturn("s1")
  \/ SleepReturn("s1")
  \/ StartDone("s1")
  \/ Stop
  \/ \E k \in ChildIds : ChildReady(k)
  \/ \E k \in ChildIds : ChildExit(k)
  \/ Tick

HealthSpec == Init /\ [][HealthNext]_vars

SupNext ==
  \/ \E c \in Starters : StartCall(c)
  \/ \E c \in Starters : GetReturn(c)
  \/ \E c \in Starters : SleepReturn(c)
  \/ \E c \in Starters : StartDone(c)
  \/ Stop
  \/ \E k \in ChildIds : ChildReady(k)
  \/ \E k \in ChildIds : ChildExit(k)
  \/ Tick

SupSpec == Init /\ [][SupNext]_vars

\* The same under the event loop's scheduling: a health request comes back
\* (the client's timeout sees to it), a sleep that is over returns, and time
\* passes.
SupLive ==
  /\ SupSpec
  /\ \A c \in Starters : WF_vars(GetReturn(c)) /\ WF_vars(SleepReturn(c))
  /\ WF_vars(Tick)

\* ------------------------------------------------------------ the database
DefaultTitle == [kind |-> "default", n |-> 0, ellipsis |-> FALSE]

\* Database._count_messages
CountMessages(cv) == Cardinality({i \in 1..Len(msgs) : msgs[i].conv = cv})

\* The row save_message inserts.
Message(cv, role, text) == [conv |-> cv, role |-> role, text |-> text]

\* save_message can insert: the messages table references conversations(id)
\* and the connection runs with foreign_keys=ON.
CanSaveMessage(cv) == cv \in convs

RECURSIVE WithoutConv(_, _)
WithoutConv(ms, cv) ==
  IF ms = <<>> THEN <<>>
  ELSE IF Head(ms).conv = cv THEN WithoutConv(Tail(ms), cv)
  ELSE <<Head(ms)>> \o WithoutConv(Tail(ms), cv)

RECURSIVE OfConv(_, _)
OfConv(ms, cv) ==
  IF ms = <<>> THEN <<>>
  ELSE IF Head(ms).conv = cv THEN <<Head(ms)>> \o OfConv(Tail(ms), cv)
  ELSE OfConv(Tail(ms), cv)

\* Database.get_messages: the conversation's rows ORDER BY created_at ASC
\* LIMIT limit, that is its oldest rows; ms: the table when it is read.
get_messages(ms, cv, limit) ==
  LET rows == OfConv(ms, cv) IN SubSeq(rows, 1, Min(limit, Len(rows)))

\* get_messages(..., limit=20) in chat
HistoryLimit == 20

\* The system_prompt field of a chat request: absent or empty (both test
\* false at main.py:363), or a text of the caller's.
Prompts == {"", "custom"}

\* The content of the system entry: the caller's prompt when it tests true,
\* else the default persona.
SystemContent(sp) == IF sp # "" THEN sp ELSE "persona"

\* The turn list chat() builds: the system entry, then the history rows.
Turns(history, sp) ==
  <<[role |-> "system", content |-> SystemContent(sp)]>>
    \o [i \in 1..Len(history) |-> [role |-> history[i].role, content |-> history[i].text]]

\* POST /api/conversations: a conversation under a fresh id.
CreateConversation ==
  /\ \E cv \in ConvIds \ made :
       /\ made' = made \cup {cv}
       /\ convs' = convs \cup {cv}
  /\ UNCHANGED <<title, msgs, ch>>
  /\ UNCHANGED supVars
  /\ UNCHANGED docVars

\* DELETE /api/conversations/{id}: the row goes, and its messages with it
\* (ON DELETE CASCADE).
DeleteConversation(cv) ==
  /\ cv \in convs
  /\ convs' = convs \ {cv}
  /\ msgs' = WithoutConv(msgs, cv)
  /\ title' = [title EXCEPT ![cv] = DefaultTitle]
  /\ UNCHANGED <<made, ch>>
  /\ UNCHANGED supVars
  /\ UNCHANGED docVars

\* --------------------------------------------------------------- POST /api/chat
\* The engine's lifecycle state as the design names it, read off the handle
\* and the child: no handle, Stopped; a live child that answers health,
\* Running; a live child that does not yet, Starting; a handle on a child that
\* has exited, Failed.
EngineState ==
  IF process = None THEN "Stopped"
  ELSE IF ~Polls(process) THEN "Failed"
  ELSE IF ready[process] THEN "Running"
  ELSE "Starting"

Emit(e) == Append(ch.events, e)

\* The invocation ends with result r.  Every way out of the try block leaves
\* the two "async with" blocks, which close an engine request that is open:
\* "aborted" when an exception takes it out, "ended" after the last line.
\* The turn list is a local of the handler: it is gone with the invocation.
Closed(r) == [ch EXCEPT !.pc = "closed", !.result = r, !.sent = <<>>, !.prompt = "",
                        !.req = IF ch.req = "open" THEN "aborted" ELSE ch.req]

\* chat() up to its first storage write: the conversation lookup and the
\* is_running test.  w: the number of words of the user's message; sp: the
\* request's system prompt.
ChatAdmit(cv, w, sp) ==
  /\ ch.pc = "idle"
  /\ ch' = IF cv \notin convs
             THEN [IdleChat EXCEPT !.pc = "closed", !.conv = cv, !.engine = EngineState,
                                   !.result = "NotFound"]
           ELSE IF ~is_running
             THEN [IdleChat EXCEPT !.pc = "closed", !.conv = cv, !.engine = EngineState,
                                   !.found = TRUE, !.result = "Unavailable"]
           ELSE [IdleChat EXCEPT !.pc = "save_user", !.conv = cv, !.words = w,
                                 !.prompt = sp,
                                 !.engine = EngineState, !.found = TRUE,
                                 !.is_first = (CountMessages(cv) <= 1)]
  /\ UNCHANGED <<made, convs, title, msgs>>
  /\ UNCHANGED supVars
  /\ UNCHANGED docVars

\* A chat request, while the store has room for its message.
ChatCall(cv, w, sp) ==
  /\ Len(msgs) < MaxMsgs
  /\ ChatAdmit(cv, w, sp)

\* The user's message is saved and the history read; chat() returns the
\* event-stream response (the note of the lifecycle state the request met
\* ends here).  The insert fails when the conversation has been
\* deleted since the lookup.
ChatPersistUser ==
  /\ ch.pc = "save_user"
  /\ IF CanSaveMessage(ch.conv)
       THEN /\ msgs' = Append(msgs, Message(ch.conv, "user", ch.words))
            /\ ch' = [ch EXCEPT !.pc = "start", !.engine = "none",
                                !.sent = Turns(get_messages(msgs', ch.conv, HistoryLimit),
                                               ch.prompt)]
       ELSE /\ ch' = Closed("InternalError")
            /\ UNCHANGED msgs
  /\ UNCHANGED <<made, convs, title>>
  /\ UNCHANGED supVars
  /\ UNCHANGED docVars

\* stream_response starts: the start event, then the completion request.
EmitStart ==
  /\ ch.pc = "start"
  /\ ch' = [ch EXCEPT !.pc = "connect", !.events = Emit([type |-> "start"])]
  /\ UNCHANGED <<made, convs, title, msgs>>
  /\ UNCHANGED supVars
  /\ UNCHANGED docVars

\* An except clause that keeps what was generated so far: the partial
\* response is saved before the error event.
OnStreamErrorKeepsPartial(cause) ==
  /\ ch' = [Closed("error") EXCEPT !.events = Emit([type |-> "error", cause |-> cause]),
                                   !.saved = (ch.full # <<>> /\ CanSaveMessage(ch.conv))]
  /\ msgs' = IF ch.full # <<>> /\ CanSaveMessage(ch.conv)
               THEN Append(msgs, Message(ch.conv, "assistant", ch.full))
               ELSE msgs

\* The except clauses of stream_response: the error event, then return.
\* Nothing is written to the store.
OnStreamError(cause) ==
  /\ ch' = [Closed("error") EXCEPT !.events = Emit([type |-> "error", cause |-> cause])]
  /\ UNCHANGED msgs

\* How opening the streaming request can end: nothing listens (ConnectError),
\* a live child accepts, or another httpx error (a timeout, a reset).
ConnectOutcomes ==
  IF Alive = {} THEN {"connect_error"}
  ELSE {"accepted", "other_error"}
       \cup (IF \E k \in Alive : ~ready[k] THEN {"connect_error"} ELSE {})

\* client.stream("POST", ...) returns or raises.  The turn list has gone out
\* with the request and is not read again.
ConnectReturn ==
  /\ ch.pc = "connect"
  /\ \E o \in ConnectOutcomes :
       \/ /\ o = "accepted"
          /\ ch' = [ch EXCEPT !.pc = "stream", !.req = "open",
                               !.sent = <<>>, !.prompt = ""]
          /\ UNCHANGED msgs
       \/ /\ o = "connect_error"
          /\ OnStreamError("connect")
       \/ /\ o = "other_error"
          /\ OnStreamError("other")
  /\ UNCHANGED <<made, convs, title>>
  /\ UNCHANGED supVars
  /\ UNCHANGED docVars

\* What the next read of the response can bring.  A ready child sends content
\* fragments and the [DONE] marker; any response can end without the marker
\* (a child still loading answers with an error body and no data lines); any
\* read can fail.  Lines that are not data lines, that do not parse, or that
\* carry no content change nothing and are not steps of the model.
StreamOutcomes ==
  {"eof", "read_error"}
  \cup (IF \E k \in Alive : ready[k] THEN {"token", "marker"} ELSE {})

\* The readings of time.time() - start_time after the loop, in seconds
\* (time.time() is the wall clock: it can stand still or step back).
Elapsed == {-1, 0, 3, 4}

\* round(x, 1) of x = c / e, in tenths: to the nearest tenth, an exact tie to
\* the even one (c / e with e in Elapsed is a tie only where the float is exact).
RoundTenthsDown(c, e) == (10 * c) \div e

RoundTenths(c, e) ==
  LET q == (10 * c) \div e
      r == (10 * c) % e
  IN IF 2 * r < e THEN q
     ELSE IF 2 * r > e THEN q + 1
     ELSE IF q % 2 = 0 THEN q ELSE q + 1

\* tps = token_count / elapsed if elapsed > 0 else 0, as the done event
\* carries it: round(tps, 1), here in tenths.
tokens_per_second(c, e) == IF e > 0 THEN RoundTenths(c, e) ELSE 0

DoneEvent == [type |-> "done", total |-> ch.count, tps |-> ch.tps]

\* The statements after the try block, up to the next suspension point:
\* elapsed and tps are computed; with content accumulated, the save of the
\* assistant message follows; with none, the done event, and nothing after
\* it (the auto-title test needs content).  e: the elapsed time read; o: how
\* the loop was left, by the break on the [DONE] marker or by the end of the
\* response ("end" notes it; the handler keeps no trace of the difference).
AfterLoop(e, o) ==
  LET t == tokens_per_second(ch.count, e) IN
  IF ch.full # <<>>
    THEN [ch EXCEPT !.pc = "save", !.elapsed = e, !.tps = t, !.req = "ended", !.end = o]
    ELSE [Closed("done") EXCEPT !.elapsed = e, !.tps = t, !.req = "ended", !.end = o,
                                !.events = Emit([type |-> "done", total |-> ch.count,
                                                 tps |-> t])]

StreamLine ==
  /\ ch.pc = "stream"
  /\ \E o \in StreamOutcomes :
       \/ /\ o = "token"
          /\ ch.count < MaxTokens
          /\ LET t == Fragment(ch.count + 1) IN
               ch' = [ch EXCEPT !.full = Append(ch.full, t),
                                !.count = ch.count + 1,
                                !.events = Emit([type |-> "token", content |-> t])]
          /\ UNCHANGED msgs
       \/ /\ o \in {"marker", "eof"}
          /\ \E e \in Elapsed : ch' = AfterLoop(e, o)
          /\ UNCHANGED msgs
       \/ /\ o = "read_error"
          /\ OnStreamError("other")
  /\ UNCHANGED <<made, convs, title>>
  /\ UNCHANGED supVars
  /\ UNCHANGED docVars

\* The same without the is_first test before _auto_title: every completed
\* exchange goes on to title derivation.
SaveAssistantAlwaysTitles ==
  /\ ch.pc = "save"
  /\ IF CanSaveMessage(ch.conv)
       THEN /\ msgs' = Append(msgs, Message(ch.conv, "assistant", ch.full))
            /\ ch' = [ch EXCEPT !.pc = "title",
                                !.result = "done",
                                !.saved = TRUE, !.end = "none",
                                !.events = Emit(DoneEvent)]
       ELSE /\ ch' = Closed("raised")
            /\ UNCHANGED msgs
  /\ UNCHANGED <<made, convs, title>>
  /\ UNCHANGED supVars
  /\ UNCHANGED docVars

\* The save of the assistant message returns.  It is outside the try block:
\* when it raises, the exception leaves the generator and no event follows.
SaveAssistant ==
  /\ ch.pc = "save"
  /\ IF CanSaveMessage(ch.conv)
       THEN /\ msgs' = Append(msgs, Message(ch.conv, "assistant", ch.full))
            /\ ch' = [ch EXCEPT !.pc = IF ch.is_first THEN "title" ELSE "closed",
                                !.result = "done",
                                !.saved = TRUE, !.end = "none",
                                !.events = Emit(DoneEvent)]
       ELSE /\ ch' = Closed("raised")
            /\ UNCHANGED msgs
  /\ UNCHANGED <<made, convs, title>>
  /\ UNCHANGED supVars
  /\ UNCHANGED docVars

\* _auto_title's fallback: the first five words, "..." when five were kept.
FallbackTitle(w) == [kind |-> "fallback", n |-> Min(w, 5), ellipsis |-> (Min(w, 5) = 5)]

\* update_conversation: an UPDATE, which changes nothing when the row is gone.
UpdateTitle(cv, t) == IF cv \in convs THEN [title EXCEPT ![cv] = t] ELSE title

\* How a storage statement can go: it is carried out, or the connection
\* raises (the disk is full, the database is locked, the connection was
\* closed by the shutdown hook while the stream was still open).
StorageOutcomes == {"ok", "fails"}

\* _auto_title is entered after the done event: with the engine not running
\* the fallback title is written, outside any try block, so a failure of the
\* update leaves _auto_title and the generator; otherwise the title request
\* is sent.
AutoTitle ==
  /\ ch.pc = "title"
  /\ IF ~is_running
       THEN \E so \in StorageOutcomes :
              IF so = "ok"
                THEN /\ title' = UpdateTitle(ch.conv, FallbackTitle(ch.words))
                     /\ ch' = [ch EXCEPT !.pc = "closed"]
                ELSE /\ ch' = [ch EXCEPT !.pc = "closed", !.titleErr = "raised"]
                     /\ UNCHANGED title
       ELSE /\ ch' = [ch EXCEPT !.pc = "title_post"]
            /\ UNCHANGED title
  /\ UNCHANGED <<made, convs, msgs>>
  /\ UNCHANGED supVars
  /\ UNCHANGED docVars

\* The title request returns: a 200 with a non-empty title updates the
\* conversation; another status or an empty title does not; an exception,
\* from the request, the parsing or the update, is logged by the except
\* clause and goes no further.
TitleReturn ==
  /\ ch.pc = "title_post"
  /\ \E o \in {"titled", "nothing", "fails"} :
       /\ o = "titled" => \E k \in Alive : ready[k]
       /\ title' = IF o = "titled"
                     THEN UpdateTitle(ch.conv, [kind |-> "llm", n |-> 0, ellipsis |-> FALSE])
                     ELSE title
       /\ ch' = [ch EXCEPT !.pc = "closed",
                           !.titleErr = IF o = "fails" THEN "absorbed" ELSE ch.titleErr]
  /\ UNCHANGED <<made, convs, msgs>>
  /\ UNCHANGED supVars
  /\ UNCHANGED docVars

\* A handler for the consumer going away that keeps what was generated:
\* whatever has accumulated is saved as the assistant message.
DisconnectKeepsPartial ==
  /\ ch.pc \in {"start", "connect", "stream", "save", "title", "title_post"}
  /\ IF ch.pc \in {"title", "title_post"}
       THEN /\ ch' = [ch EXCEPT !.pc = "closed"]
            /\ UNCHANGED msgs
       ELSE /\ ch' = [Closed("cancelled") EXCEPT
                        !.saved = (ch.full # <<>> /\ CanSaveMessage(ch.conv))]
            /\ msgs' = IF ch.full # <<>> /\ CanSaveMessage(ch.conv)
                         THEN Append(msgs, Message(ch.conv, "assistant", ch.full))
                         ELSE msgs
  /\ UNCHANGED <<made, convs, title>>
  /\ UNCHANGED supVars
  /\ UNCHANGED docVars

\* The consumer of the event stream goes away: the generator is cancelled at
\* the point where it is suspended (CancelledError is no Exception: neither
\* except clause takes it).  Cancelled inside save_message, the INSERT may
\* already have been carried out on the connection: the row is then there.
Disconnect ==
  /\ ch.pc \in {"start", "connect", "stream", "save", "title", "title_post"}
  /\ IF ch.pc \in {"title", "title_post"}
       THEN /\ ch' = [ch EXCEPT !.pc = "closed"]
            /\ UNCHANGED msgs
       ELSE \E landed \in BOOLEAN :
              IF landed /\ ch.pc = "save" /\ CanSaveMessage(ch.conv)
                THEN /\ ch' = [Closed("cancelled") EXCEPT !.saved = TRUE]
                     /\ msgs' = Append(msgs, Message(ch.conv, "assistant", ch.full))
                ELSE /\ ch' = Closed("cancelled")
                     /\ UNCHANGED msgs
  /\ UNCHANGED <<made, convs, title>>
  /\ UNCHANGED supVars
  /\ UNCHANGED docVars

\* The request is over; the next one may come.
ChatDone ==
  /\ ch.pc = "closed"
  /\ ch' = IdleChat
  /\ UNCHANGED <<made, convs, title, msgs>>
  /\ UNCHANGED supVars
  /\ UNCHANGED docVars

ChatNext ==
  \/ CreateConversation
  \/ \E cv \in ConvIds : DeleteConversation(cv)
  \/ \E cv \in ConvIds, w \in MsgWords, sp \in Prompts : ChatCall(cv, w, sp)
  \/ ChatPersistUser
  \/ EmitStart
  \/ ConnectReturn
  \/ StreamLine
  \/ SaveAssistant
  \/ AutoTitle
  \/ TitleReturn
  \/ Disconnect
  \/ ChatDone

\* The engine as the chat proxy meets it.  The proxy reads the handle and
\* the child, never the supervisor's clock: one start() call at a time, and
\* the clock stands still (a start() call that went to sleep stays asleep).
EngineNext ==
  \/ StartCall("s1")
  \/ GetReturn("s1")
  \/ StartDone("s1")
  \/ Stop
  \/ \E k \in ChildIds : ChildReady(k)
  \/ \E k \in ChildIds : ChildExit(k)

ChatSpec == Init /\ [][ChatNext \/ EngineNext]_vars

\* ---------------------------------------------------- chat on a long history
\* The database outlives the server: a conversation of n messages from
\* earlier exchanges, oldest first, each with content of its own (the i-th
\* is a user message of i words or an assistant message of one fragment).
Stored(n) ==
  [i \in 1..n |-> IF i % 2 = 1 THEN Message("cv1", "user", i)
                  ELSE Message("cv1", "assistant", <<Fragment(i)>>)]

\* The server is up on such a database, the engine started and ready (it
\* may be stopped, or exit, at any moment).
HistoryInit ==
  /\ process = 1
  /\ start_time = 0
  /\ child = [k \in ChildIds |-> IF k = 1 THEN "alive" ELSE "none"]
  /\ ready = [k \in ChildIds |-> k = 1]
  /\ now = 0
  /\ st = [c \in Starters |-> IdleStart]
  /\ lastStop = "none"
  /\ hc = IdleHealth
  /\ made = {"cv1"}
  /\ convs = {"cv1"}
  /\ title = [cv \in ConvIds |-> DefaultTitle]
  /\ \E n \in 0..MaxStored : msgs = Stored(n)
  /\ ch = IdleChat
  /\ DocInit

\* The table is as the database held it: no row written since.
AsStored ==
  /\ Len(msgs) <= MaxStored
  /\ \A i \in 1..Len(msgs) :
       /\ msgs[i].role = Stored(Len(msgs))[i].role
       /\ msgs[i].text = Stored(Len(msgs))[i].text

\* One chat request on the conversation as the database held it.
HistoryChat(w, sp) ==
  /\ AsStored
  /\ ChatAdmit("cv1", w, sp)

HistoryNext ==
  \/ \E w \in MsgWords, sp \in Prompts : HistoryChat(w, sp)
  \/ ChatPersistUser
  \/ EmitStart
  \/ ConnectReturn
  \/ StreamLine
  \/ SaveAssistant
  \/ AutoTitle
  \/ TitleReturn
  \/ Disconnect
  \/ ChatDone
  \/ Stop
  \/ \E k \in ChildIds : ChildExit(k)

HistorySpec == HistoryInit /\ [][HistoryNext]_vars

\* ------------------------------------------- the engine seen from all sides
\* One start() call, stop(), the child, and beside them the callers that
\* look at the engine: health_check and chat requests (two-word messages,
\* no system prompt), followed up to the opening of the engine request,
\* where the consumer goes away.
ExitNext ==
  \/ EngineNext
  \/ HealthCheckCall
  \/ HealthCheckReturn
  \/ HealthCheckDone
  \/ CreateConversation
  \/ \E cv \in ConvIds : ChatCall(cv, 2, "")
  \/ ChatPersistUser
  \/ EmitStart
  \/ Disconnect
  \/ ChatDone

ExitSpec == Init /\ [][ExitNext]_vars

\* ------------------------------------------------------------ Florence2Manager
\* How one load() can go: both from_pretrained calls succeed; the first
\* raises (nothing is assigned); the second raises (the model is held, the
\* gate is not marked loaded).
LoadOutcomes == {"ok", "no_model", "no_processor"}

\* Florence2Manager.load
load(g, o) ==
  IF g.is_loaded THEN g
  ELSE CASE o = "ok" -> [is_loaded |-> TRUE, model |-> TRUE, processor |-> TRUE]
         [] o = "no_model" -> g
         [] OTHER -> [g EXCEPT !.model = TRUE]

\* Florence2Manager.unload
unload(g) == IF ~g.is_loaded THEN g ELSE Unloaded

\* An upload call that is between its first line and its return.
InFlight(u) == up[u].pc \in {"lookup", "log", "insert"}

\* POST /api/models/florence2/start: load() unless already loaded.
LoadModel ==
  /\ ~gate.is_loaded
  /\ \E o \in LoadOutcomes : gate' = load(gate, o)
  /\ up' = [u \in Uploads |-> IF InFlight(u) THEN [up[u] EXCEPT !.interfered = TRUE] ELSE up[u]]
  /\ UNCHANGED <<cache, firstText>>
  /\ UNCHANGED supVars
  /\ UNCHANGED chatVars

\* POST /api/models/florence2/stop: unload() when loaded.
UnloadModel ==
  /\ gate.is_loaded
  /\ gate' = unload(gate)
  /\ UNCHANGED <<cache, up, firstText>>
  /\ UNCHANGED supVars
  /\ UNCHANGED chatVars

\* -------------------------------------------------------- POST /api/documents
\* _compute_file_hash: SHA-256 of the bytes, taken to be free of collisions.
Hash(b) == <<"sha256", b>>

Lower(c) ==
  CASE c = "P" -> "p" [] c = "N" -> "n" [] c = "G" -> "g" [] c = "D" -> "d"
    [] c = "F" -> "f" [] c = "T" -> "t" [] c = "X" -> "x" [] c = "J" -> "j"
    [] c = "R" -> "r" [] c = "E" -> "e" [] c = "A" -> "a" [] c = "M" -> "m"
    [] OTHER -> c

\* The suffix after the last dot, as it is written (no case folding).
FileExtAsWritten(nm) ==
  IF \E i \in 1..Len(nm) : nm[i] = "."
    THEN LET d == CHOOSE i \in 1..Len(nm) :
                    nm[i] = "." /\ \A j \in (i + 1)..Len(nm) : nm[j] # "."
         IN [i \in 1..(Len(nm) - d) |-> nm[d + i]]
    ELSE <<>>

\* filename.rsplit(".", 1)[-1].lower() if "." in filename else ""
file_ext(nm) ==
  IF \E i \in 1..Len(nm) : nm[i] = "."
    THEN LET d == CHOOSE i \in 1..Len(nm) :
                    nm[i] = "." /\ \A j \in (i + 1)..Len(nm) : nm[j] # "."
         IN [i \in 1..(Len(nm) - d) |-> Lower(nm[d + i])]
    ELSE <<>>

ImageExts == {<<"j", "p", "g">>, <<"j", "p", "e", "g">>, <<"p", "n", "g">>,
              <<"t", "i", "f", "f">>, <<"t", "i", "f">>, <<"b", "m", "p">>,
              <<"w", "e", "b", "p">>}

\* What the parsers make of each content.
IsUtf8(b) == b \in PdfDocs
PdfOpens(b) == b \in PdfDocs
ImageOpens(b) == b = "png"
DocxOpens(b) == b = "docx"
\* len(doc)
PdfPages(b) ==
  CASE b = "pdf-empty" -> 0
    [] b = "pdf-thin" -> 1
    [] b = "pdf-long" -> 3
    [] OTHER -> 2
\* total_chars: the stripped text of all pages
PdfChars(b) ==
  CASE b = "pdf-empty" -> 0
    [] b = "pdf-thin" -> 49
    [] b = "pdf-scan" -> 98
    [] b = "pdf-edge" -> 100
    [] b = "pdf-long" -> 150
    [] OTHER -> 120

\* chars_per_page < 50 in _is_scanned_pdf
ScanThreshold == 50

Max(a, b) == IF a > b THEN a ELSE b

\* _is_scanned_pdf: total_chars / max(pages, 1) < 50
is_scanned_pdf(b) == PdfChars(b) < ScanThreshold * Max(PdfPages(b), 1)

\* _is_scanned_pdf reads len(doc) after doc.close().  What a closed
\* document answers is the PDF library's affair: the page count, or an
\* exception (PyMuPDF's page_count raises ValueError("document closed")).
ClosedDocOutcomes == {"counts", "raises"}

\* The branch of the try block an upload takes, or the error it raises there
\* before any branch produces text.  dc: what len(doc) does on the closed
\* document.
Route(b, ext, dc) ==
  IF ext = <<"p", "d", "f">>
    THEN IF ~PdfOpens(b) THEN "internal"
         ELSE IF dc = "raises" THEN "internal"
         ELSE IF is_scanned_pdf(b) THEN "vision" ELSE "text_pdf"
  ELSE IF ext \in ImageExts
    THEN IF ~ImageOpens(b) THEN "internal" ELSE "vision"
  ELSE IF ext = <<"d", "o", "c", "x">>
    THEN IF ~DocxOpens(b) THEN "internal" ELSE "docx"
  ELSE IF IsUtf8(b) THEN "plaintext" ELSE "unsupported"

Failure(kind) == [NoResult EXCEPT !.err = kind]

Extracted(b, nm, method, how) ==
  [ok |-> TRUE, err |-> "none", cached |-> FALSE, text |-> [src |-> b, how |-> how],
   method |-> method, name |-> nm, detail |-> <<>>]

\* The try block of upload_document on a cache miss, the finally clause not
\* included: the gate it leaves and the outcome.  lo: how load() goes if
\* process_image calls it; io: whether the library calls of the branch
\* (inference, page and paragraph extraction) then succeed; dc: as in Route.
\* On the vision branch process_image runs once per image: never for a PDF
\* without pages, whose text is then empty.
TryBlock(b, nm, g, lo, io, dc) ==
  LET r == Route(b, file_ext(nm), dc) IN
  CASE r = "vision" /\ PdfOpens(b) /\ PdfPages(b) = 0 ->
         [gate |-> g, loads |-> FALSE, route |-> r,
          pending |-> IF io = "ok" THEN Extracted(b, nm, "florence2", "vision")
                                   ELSE Failure("internal")]
    [] r = "vision" /\ ~(PdfOpens(b) /\ PdfPages(b) = 0) ->
         LET g1 == load(g, lo) IN
         [gate |-> g1,
          loads |-> ~g.is_loaded, route |-> r,
          pending |-> IF g1.is_loaded /\ io = "ok"
                        THEN Extracted(b, nm, "florence2", "vision")
                        ELSE Failure("internal")]
    [] r = "text_pdf" ->
         [gate |-> g, loads |-> FALSE, route |-> r,
          pending |-> IF io = "ok" THEN Extracted(b, nm, "text_pdf", "pages")
                                   ELSE Failure("internal")]
    [] r = "docx" ->
         [gate |-> g, loads |-> FALSE, route |-> r,
          pending |-> IF io = "ok" THEN Extracted(b, nm, "docx", "paragraphs")
                                   ELSE Failure("internal")]
    [] r = "plaintext" ->
         [gate |-> g, loads |-> FALSE, route |-> r, pending |-> Extracted(b, nm, "plaintext", "decoded")]
    [] r = "unsupported" ->
         [gate |-> g, loads |-> FALSE, route |-> r,
          pending |-> [Failure("client") EXCEPT !.detail = file_ext(nm)]]
    [] OTHER ->
         [gate |-> g, loads |-> FALSE, route |-> r, pending |-> Failure("internal")]

\* A lookup keyed by content hash and file name together.
CacheLookupByName(h, nm) ==
  {row \in cache : row.file_hash = h /\ row.original_name = nm}

\* get_cached_document(file_hash): the rows of that hash (nm is not used).
CacheLookup(h, nm) == {row \in cache : row.file_hash = h}

\* The handler returns res; g is the gate at that moment.
Ret(u, res, g) ==
  [up[u] EXCEPT !.pc = "returned", !.result = res, !.pending = NoResult,
                !.gateAtReturn = g.is_loaded]

\* upload_document up to the cache lookup.
UploadCall(u, b, nm) ==
  /\ up[u].pc = "idle"
  /\ up' = [up EXCEPT ![u] = [IdleUpload EXCEPT !.pc = "lookup", !.bytes = b,
                                              !.name = nm, !.prior = firstText[b]]]
  /\ UNCHANGED <<gate, cache, firstText>>
  /\ UNCHANGED supVars
  /\ UNCHANGED chatVars

\* The lookup returns, with the unload of the finally clause put off until
\* after a suspension point: the step leaves the gate as the try block left it.
LookupReturnUnloadLater(u) ==
  /\ up[u].pc = "lookup"
  /\ LET hit == CacheLookup(Hash(up[u].bytes), up[u].name) IN
     IF hit # {}
       THEN /\ \E row \in hit :
                 up' = [up EXCEPT ![u] =
                          Ret(u, [ok |-> TRUE, err |-> "none", cached |-> TRUE,
                                  text |-> row.extracted_text,
                                  method |-> row.extraction_method,
                                  name |-> row.original_name, detail |-> <<>>], gate)]
            /\ UNCHANGED gate
       ELSE \E lo \in LoadOutcomes, io \in {"ok", "fail"}, dc \in ClosedDocOutcomes :
              LET t == TryBlock(up[u].bytes, up[u].name, gate, lo, io, dc)
                  me == [up[u] EXCEPT !.extracted = TRUE, !.gateLoad = t.loads,
                                      !.route = t.route, !.pending = t.pending]
              IN /\ gate' = t.gate
                 /\ up' = [up EXCEPT ![u] =
                             IF t.gate.is_loaded THEN [me EXCEPT !.pc = "log"]
                             ELSE IF t.pending.ok THEN [me EXCEPT !.pc = "insert"]
                             ELSE [Ret(u, t.pending, t.gate) EXCEPT !.extracted = TRUE,
                                                                     !.route = t.route,
                                                                     !.gateLoad = t.loads]]
  /\ UNCHANGED <<cache, firstText>>
  /\ UNCHANGED supVars
  /\ UNCHANGED chatVars

\* The lookup returns.  On a hit the cached row is returned at once.  On a
\* miss the try block runs and then the finally clause, which unloads the
\* gate when it is loaded and then logs the unload (a suspension point).
LookupReturn(u) ==
  /\ up[u].pc = "lookup"
  /\ LET hit == CacheLookup(Hash(up[u].bytes), up[u].name) IN
     IF hit # {}
       THEN /\ \E row \in hit :
                 up' = [up EXCEPT ![u] =
                          Ret(u, [ok |-> TRUE, err |-> "none", cached |-> TRUE,
                                  text |-> row.extracted_text,
                                  method |-> row.extraction_method,
                                  name |-> row.original_name, detail |-> <<>>], gate)]
            /\ UNCHANGED gate
       ELSE \E lo \in LoadOutcomes, io \in {"ok", "fail"}, dc \in ClosedDocOutcomes :
              LET t == TryBlock(up[u].bytes, up[u].name, gate, lo, io, dc)
                  g2 == unload(t.gate)
                  me == [up[u] EXCEPT !.extracted = TRUE, !.gateLoad = t.loads,
                                      !.route = t.route, !.pending = t.pending]
              IN /\ gate' = g2
                 /\ up' = [up EXCEPT ![u] =
                             IF t.gate.is_loaded THEN [me EXCEPT !.pc = "log"]
                             ELSE IF t.pending.ok THEN [me EXCEPT !.pc = "insert"]
                             ELSE [Ret(u, t.pending, g2) EXCEPT !.extracted = TRUE,
                                                                 !.route = t.route,
                                                                 !.gateLoad = t.loads]]
  /\ UNCHANGED <<cache, firstText>>
  /\ UNCHANGED supVars
  /\ UNCHANGED chatVars

\* The unload has been logged: the error, if any, now reaches the caller;
\* otherwise the result goes to the cache.
LogReturn(u) ==
  /\ up[u].pc = "log"
  /\ up' = [up EXCEPT ![u] =
              IF up[u].pending.ok THEN [up[u] EXCEPT !.pc = "insert"]
              ELSE Ret(u, up[u].pending, gate)]
  /\ UNCHANGED <<gate, cache, firstText>>
  /\ UNCHANGED supVars
  /\ UNCHANGED chatVars

\* cache_document written as INSERT OR REPLACE: a row of the same hash gives
\* way to the new one.
InsertReturnReplace(u) ==
  /\ up[u].pc = "insert"
  /\ LET b == up[u].bytes
         res == up[u].pending
     IN /\ cache' = {row \in cache : row.file_hash # Hash(b)}
                      \cup {[file_hash |-> Hash(b),
                              original_name |-> up[u].name,
                              extracted_text |-> res.text,
                              extraction_method |-> res.method]}
        /\ up' = [up EXCEPT ![u] = Ret(u, res, gate)]
        /\ firstText' = IF firstText[b] = NoText
                          THEN [firstText EXCEPT ![b] = res.text]
                          ELSE firstText
  /\ UNCHANGED gate
  /\ UNCHANGED supVars
  /\ UNCHANGED chatVars

\* cache_document returns.  file_hash is UNIQUE: a second row of the same
\* hash is refused and the exception leaves the handler.
InsertReturn(u) ==
  /\ up[u].pc = "insert"
  /\ LET b == up[u].bytes
         res == up[u].pending
     IN IF \E row \in cache : row.file_hash = Hash(b)
          THEN /\ up' = [up EXCEPT ![u] = Ret(u, Failure("internal"), gate)]
               /\ UNCHANGED <<cache, firstText>>
          ELSE /\ cache' = cache \cup {[file_hash |-> Hash(b),
                                        original_name |-> up[u].name,
                                        extracted_text |-> res.text,
                                        extraction_method |-> res.method]}
               /\ up' = [up EXCEPT ![u] = Ret(u, res, gate)]
               /\ firstText' = IF firstText[b] = NoText
                                 THEN [firstText EXCEPT ![b] = res.text]
                                 ELSE firstText
  /\ UNCHANGED gate
  /\ UNCHANGED supVars
  /\ UNCHANGED chatVars

\* The caller has its answer; the slot is free for another upload.
UploadDone(u) ==
  /\ up[u].pc = "returned"
  /\ up' = [up EXCEPT ![u] = IdleUpload]
  /\ UNCHANGED <<gate, cache, firstText>>
  /\ UNCHANGED supVars
  /\ UNCHANGED chatVars

DocNext ==
  \/ \E u \in Uploads, b \in Bytes, nm \in Names : UploadCall(u, b, nm)
  \/ \E u \in Uploads : LookupReturn(u)
  \/ \E u \in Uploads : LogReturn(u)
  \/ \E u \in Uploads : InsertReturn(u)
  \/ \E u \in Uploads : UploadDone(u)
  \/ LoadModel
  \/ UnloadModel

DocSpec == Init /\ [][DocNext]_vars

\* Uploads of PDF contents under a .pdf name, one at a time, beside the
\* model endpoints.
PdfName == <<"c", ".", "p", "d", "f">>

ClassifyNext ==
  \/ \E b \in PdfDocs : UploadCall("u1", b, PdfName)
  \/ LookupReturn("u1")
  \/ LogReturn("u1")
  \/ InsertReturn("u1")
  \/ UploadDone("u1")
  \/ LoadModel
  \/ UnloadModel

ClassifySpec == Init /\ [][ClassifyNext]_vars

\* Uploads under names of every kind of suffix: none, lower case, upper
\* case, after more than one dot.
ExtNames == {<<"a", ".", "t", "x", "t">>, <<"c", ".", "p", "d", "f">>,
             <<"d", ".", "d", "o", "c", "x">>, <<"R", "E", "A", "D", "M", "E">>,
             <<"x", ".", "t", "a", "r", ".", "J", "P", "G">>}
ExtContents == {"png", "pdf", "pdf-scan", "docx"}

RouteNext ==
  \/ \E b \in ExtContents, nm \in ExtNames : UploadCall("u1", b, nm)
  \/ LookupReturn("u1")
  \/ LogReturn("u1")
  \/ InsertReturn("u1")
  \/ UploadDone("u1")
  \/ LoadModel
  \/ UnloadModel

RouteSpec == Init /\ [][RouteNext]_vars


\* ================================================================ properties
Last(s) == s[Len(s)]

StartFailures == {"FileNotFoundError", "RuntimeError", "TimeoutError", "TimeoutExpired",
                  "TransportError", "AttributeError"}

\* C1: at most one engine child is alive at any time, and a live child is
\* the one the supervisor's handle refers to (no spawned child is orphaned),
\* whatever the interleaving of start(), stop() and child exits.
C1_SingleEngine ==
  /\ Cardinality(Alive) <= 1
  /\ \A k \in Alive : process = k

\* C1 witness: two start() calls are suspended in readiness polling together,
\* the second having spawned its child after the first call's child exited.
C1_Overlap ==
  /\ Polling("s1") /\ Polling("s2")
  /\ st["s1"].spawned # st["s2"].spawned
  /\ Alive # {}

\* C2: once start() has ended in failure after spawning a child, that child
\* is not alive (no half-started process is left behind).
C2_NoHalfStarted ==
  \A c \in Starters :
    (st[c].pc = "returned" /\ st[c].result \in StartFailures /\ st[c].spawned # None)
      => child[st[c].spawned] # "alive"

\* C9: a start() call whose child exited while it was polling ends with the
\* crash cause (RuntimeError with at most ExcerptLimit characters of stderr),
\* and status() then reports running=false and no pid while the handle is
\* still that child's.
C9_CrashReported ==
  \A c \in Starters :
    (st[c].pc = "returned" /\ st[c].sawExit)
      => /\ st[c].result = "RuntimeError"
         /\ st[c].excerpt <= ExcerptLimit
         /\ (process = st[c].spawned => (~get_status.running /\ get_status.pid = None))

\* C10: when a stop() call has just ended, on whichever path, the handle and
\* the start time are cleared and status() reports running=false.
C10_StopClears ==
  lastStop # "none" =>
    (process = None /\ start_time = NoTime /\ ~get_status.running)

\* C11: a start() call made while the engine is Running spawns nothing, leaves
\* the handle, the start time and status() as they were and returns at once;
\* a stop() call that found no handle (Stopped) changes no child, leaves the
\* handle and the start time alone, and status() is the same after it.
C11_Idempotent ==
  [][(\A c \in Starters :
        (st[c].pc = "idle" /\ st'[c].pc # "idle" /\ EngineState = "Running")
          => (/\ st'[c].pc = "returned"
              /\ st'[c].result = "already"
              /\ UNCHANGED <<process, start_time, child, ready>>
              /\ get_status' = get_status))
     /\ ((lastStop' = "noop")
           => (/\ process = None
               /\ UNCHANGED <<process, start_time, child, ready>>
               /\ get_status' = get_status))]_vars

\* C11 witness: a start() call has returned at once while the engine runs on
\* the child of another call, ready and answering health.
C11_SecondStartReturned ==
  \E c \in Starters :
    /\ st[c].pc = "returned" /\ st[c].result = "already" /\ st[c].spawned = None
    /\ EngineState = "Running"
    /\ get_status.pid = process

\* C12: a health_check() call that has ended returned a boolean, whatever
\* the outcome of the health request, and returned False when the child was
\* not alive at the call.
C12_HealthNeverRaises ==
  hc.pc = "returned" =>
    /\ hc.result \in {"True", "False"}
    /\ ~hc.running => hc.result = "False"

Terminal(e) == e.type \in {"done", "error"}

\* The event sequence of an invocation that is over: one start first, one
\* terminal event last, tokens only in between.
WellFormed(es) ==
  /\ Len(es) >= 2
  /\ es[1].type = "start"
  /\ Terminal(es[Len(es)])
  /\ \A i \in 2..(Len(es) - 1) : es[i].type = "token"

\* C3: every admitted invocation whose consumer stayed connected has emitted,
\* when it is over, one start, then tokens, then exactly one terminal event:
\* done and no error when it succeeded, error and no done when it failed.
C3_EventOrder ==
  (ch.pc = "closed" /\ ch.events # <<>> /\ ch.result # "cancelled")
    => /\ WellFormed(ch.events)
       /\ (Last(ch.events).type = "done") = (ch.result = "done")
       /\ (Last(ch.events).type = "error") = (ch.result # "done")

\* C4: no failure after the start event leaves the stream as an exception:
\* a stream that is over, with its consumer connected, ended with a terminal
\* event.
C4_TerminalDelivered ==
  (ch.pc = "closed" /\ ch.events # <<>> /\ ch.result # "cancelled")
    => (ch.result # "raised" /\ Terminal(Last(ch.events)))

\* C7: a request for a conversation that does not exist is rejected NotFound,
\* a request made while the engine is not Running is rejected (NotFound or
\* Unavailable), and a rejected request emits no event and saves no message.
C7_RejectUnlessRunning ==
  ch.pc # "idle" =>
    /\ ~ch.found => ch.result = "NotFound"
    /\ (ch.found /\ ch.engine \notin {"Running", "none"}) => ch.result = "Unavailable"
    /\ ch.result \in {"NotFound", "Unavailable"} =>
         (ch.events = <<>> /\ ~ch.saved /\ ch.pc = "closed")

\* C8: an invocation that ended with the error event has saved no assistant
\* message, however many tokens went out before: the store's newest row, if
\* the conversation still has rows, is the user's message.
C8_ErrorSavesNothing ==
  (ch.events # <<>> /\ Last(ch.events).type = "error")
    => /\ ~ch.saved
       /\ (msgs # <<>> => Last(msgs).role = "user")

\* C8 witness: an invocation ends with the error event after two tokens.
C8_ErrorAfterTokens ==
  /\ ch.pc = "closed" /\ ch.result = "error"
  /\ ch.count >= 2
  /\ Last(ch.events).type = "error"
  /\ msgs # <<>>

\* The contents of the token events of an event sequence, in order.
RECURSIVE TokenContents(_)
TokenContents(es) ==
  IF es = <<>> THEN <<>>
  ELSE IF Head(es).type = "token" THEN <<Head(es).content>> \o TokenContents(Tail(es))
  ELSE TokenContents(Tail(es))

\* The part of C13 about counts and content: the done event's total is the
\* number of token events before it, and with any token emitted the
\* assistant message was saved and, while the conversation exists, is the
\* newest row and holds the token contents in emission order.
DoneCountsTokens ==
  LET toks == TokenContents(ch.events) IN
  /\ Last(ch.events).total = Len(toks)
  /\ toks # <<>> => ch.saved
  /\ (ch.saved /\ ch.conv \in convs)
       => (msgs # <<>> /\ Last(msgs) = Message(ch.conv, "assistant", toks))

\* C13 as stated: in every done event total counts the token events, the
\* saved content is their concatenation, and tokensPerSecond is exactly
\* total / elapsed (0 when elapsed is not positive).
C13_ExactRate ==
  (ch.events # <<>> /\ Last(ch.events).type = "done")
    => /\ DoneCountsTokens
       /\ IF ch.elapsed > 0
            THEN Last(ch.events).tps * ch.elapsed = 10 * Last(ch.events).total
            ELSE Last(ch.events).tps = 0

\* C13 amended: as above, with tokensPerSecond the quotient total / elapsed
\* rounded to one decimal place: it is within half a tenth of the quotient
\* (0 when elapsed is not positive).
C13_RoundedRate ==
  (ch.events # <<>> /\ Last(ch.events).type = "done")
    => /\ DoneCountsTokens
       /\ IF ch.elapsed > 0
            THEN LET d == 10 * Last(ch.events).total - Last(ch.events).tps * ch.elapsed
                 IN 2 * d <= ch.elapsed /\ -2 * d <= ch.elapsed
            ELSE Last(ch.events).tps = 0

\* C13 witness: a done event after two tokens in three seconds, the
\* assistant message saved; 2 / 3 is not a whole number of tenths.
C13_DoneAfterTokens ==
  /\ ch.events # <<>> /\ Last(ch.events).type = "done"
  /\ Last(ch.events).total = 2 /\ ch.elapsed = 3
  /\ ch.saved /\ msgs # <<>> /\ Last(msgs).role = "assistant"

\* The engine request of an invocation that was cancelled is not left open,
\* and the invocation made no title update: where it was the first of its
\* conversation (the only case in which the handler titles), the title is
\* still the default one.
CancelAborts ==
  /\ ch.pc = "closed"
  /\ ch.req # "open"
  /\ (ch.is_first => title[ch.conv] = DefaultTitle)

\* C14 as stated: an invocation whose consumer disconnected before the
\* terminal event has aborted the engine request, saved no assistant
\* message and made no title update.
C14_CancelSavesNothing ==
  ch.result = "cancelled"
    => /\ CancelAborts
       /\ ~ch.saved
       /\ (msgs # <<>> => Last(msgs).role = "user")

\* C14 amended: such an invocation has aborted the engine request, made no
\* title update and saved no partial message: an assistant message is there
\* only when the engine's response had ended and the save was under way,
\* and then it holds every token emitted.
C14_CancelSavesNoPartial ==
  ch.result = "cancelled"
    => /\ CancelAborts
       /\ (ch.saved => ch.req = "ended")
       /\ (ch.saved => ch.full = TokenContents(ch.events))
       /\ ((ch.saved /\ ch.conv \in convs)
             => Last(msgs) = Message(ch.conv, "assistant", ch.full))
       /\ ((~ch.saved /\ msgs # <<>>) => Last(msgs).role = "user")

\* C14 witness: the consumer went away in mid-stream, after a token; the
\* engine request was aborted and only the user's message is stored.
C14_CancelledMidStream ==
  /\ ch.result = "cancelled" /\ ch.pc = "closed"
  /\ ch.count >= 1 /\ ch.req = "aborted" /\ ~ch.saved
  /\ msgs # <<>>

\* user, assistant, user, ... from the first entry on.
Alternates(rs) ==
  \A i \in 1..Len(rs) : rs[i] = IF i % 2 = 1 THEN "user" ELSE "assistant"

\* C15: the stored messages of every conversation, oldest first, alternate
\* user, assistant, user, ..., and a turn list sent to the engine is one
\* system entry followed by such a sequence.
C15_RolesAlternate ==
  /\ \A cv \in ConvIds :
       Alternates([i \in 1..Len(OfConv(msgs, cv)) |-> OfConv(msgs, cv)[i].role])
  /\ ch.sent # <<>>
       => (/\ Head(ch.sent).role = "system"
           /\ Alternates([i \in 1..(Len(ch.sent) - 1) |-> ch.sent[i + 1].role]))

\* C16: title derivation is under way or over only in an invocation whose
\* last event is done, and no failure of it, on the fallback path or on the
\* completion path, has left the invocation as an exception.
C16_TitleFailureAbsorbed ==
  /\ ch.pc \in {"title", "title_post"} => Last(ch.events).type = "done"
  /\ ch.titleErr # "none" => Last(ch.events).type = "done"
  /\ ch.titleErr # "raised"

\* C17: in every state the gate can be in, an unload() call returns with no
\* model handle, no processor handle and the loaded flag false.
C17_UnloadReleasesAll ==
  /\ ~unload(gate).is_loaded
  /\ ~unload(gate).model
  /\ ~unload(gate).processor

\* C18: a PDF upload that missed the cache took the text path (method
\* text_pdf, no gate load) when its characters per page, the page count
\* taken as 1 for a PDF without pages, are at least ScanThreshold, and the
\* vision path (method florence2) when they are fewer.
C18_PdfClassification ==
  \A u \in Uploads :
    (up[u].pc = "returned" /\ up[u].extracted /\ up[u].bytes \in PdfDocs
       /\ file_ext(up[u].name) = <<"p", "d", "f">>)
      => LET pages == IF PdfPages(up[u].bytes) = 0 THEN 1 ELSE PdfPages(up[u].bytes)
         IN IF PdfChars(up[u].bytes) >= ScanThreshold * pages
              THEN /\ up[u].route = "text_pdf"
                   /\ ~up[u].gateLoad
                   /\ (up[u].result.ok => up[u].result.method = "text_pdf")
              ELSE /\ up[u].route = "vision"
                   /\ (up[u].result.ok => up[u].result.method = "florence2")

\* The suffix each name of ExtNames ends in, lower-cased, written out.
SuffixOf(nm) ==
  CASE nm = <<"a", ".", "t", "x", "t">> -> <<"t", "x", "t">>
    [] nm = <<"c", ".", "p", "d", "f">> -> <<"p", "d", "f">>
    [] nm = <<"d", ".", "d", "o", "c", "x">> -> <<"d", "o", "c", "x">>
    [] nm = <<"x", ".", "t", "a", "r", ".", "J", "P", "G">> -> <<"j", "p", "g">>
    [] OTHER -> <<>>

\* C19: an upload that missed the cache got its method from the lower-cased
\* suffix of its name: pdf gives text_pdf or florence2, an image suffix
\* florence2, docx gives docx, any other suffix plaintext when the bytes are
\* UTF-8; bytes that are not end in the client error naming the suffix, and
\* that error comes from nowhere else; the gate is loaded only for an image
\* and for a scanned PDF.
C19_MethodByExtension ==
  \A u \in Uploads :
    (up[u].pc = "returned" /\ up[u].extracted)
      => LET e == SuffixOf(up[u].name)
             b == up[u].bytes
             r == up[u].result
             other == e # <<"p", "d", "f">> /\ e \notin ImageExts /\ e # <<"d", "o", "c", "x">>
         IN /\ (r.ok /\ e = <<"p", "d", "f">>) => r.method \in {"text_pdf", "florence2"}
            /\ (r.ok /\ e \in ImageExts) => r.method = "florence2"
            /\ (r.ok /\ e = <<"d", "o", "c", "x">>) => r.method = "docx"
            /\ (r.ok /\ other) => r.method = "plaintext"
            /\ (other /\ b \in PdfDocs) => up[u].route = "plaintext"
            /\ (other /\ b \notin PdfDocs) => (r.err = "client" /\ r.detail = e)
            /\ (r.err = "client") => (other /\ b \notin PdfDocs)
            /\ up[u].gateLoad
                 => (e \in ImageExts \/ (e = <<"p", "d", "f">> /\ b = "pdf-scan"))

\* C19 witness: an image uploaded under a name with two dots and an
\* upper-case suffix was read by the vision gate, with a text extracted
\* under a name without suffix already in the cache.
C19_UpperCaseSuffix ==
  /\ up["u1"].pc = "returned" /\ up["u1"].extracted
  /\ up["u1"].name = <<"x", ".", "t", "a", "r", ".", "J", "P", "G">>
  /\ up["u1"].result.ok /\ up["u1"].result.method = "florence2" /\ up["u1"].gateLoad
  /\ \E row \in cache : row.original_name = <<"R", "E", "A", "D", "M", "E">>
                          /\ row.extraction_method = "plaintext"

\* C20: an upload that failed on its content, a corrupt PDF or bytes of an
\* unsupported type that do not decode, was answered with the client error
\* kind, and whichever kind of failure it was, the gate was not loaded when
\* the error reached the caller (no model-start request having come in
\* meanwhile).
C20_ClientErrorKind ==
  \A u \in Uploads :
    (up[u].pc = "returned" /\ up[u].extracted /\ ~up[u].result.ok)
      => /\ up[u].result.err \in {"client", "internal"}
         /\ (file_ext(up[u].name) = <<"p", "d", "f">> /\ ~PdfOpens(up[u].bytes))
              => up[u].result.err = "client"
         /\ (up[u].route = "unsupported") => up[u].result.err = "client"
         /\ (~up[u].interfered) => ~up[u].gateAtReturn

\* C5: when an upload call returns (cache hit, extraction or error) and no
\* model-start request came in while it ran, the gate is not loaded, whatever
\* the gate's state before the call.
C5_GateUnloadedAfterIngest ==
  \A u \in Uploads :
    (up[u].pc = "returned" /\ ~up[u].interfered) => ~up[u].gateAtReturn

\* C6: an upload made after an upload of the same bytes has returned its
\* result is answered from the cache, with that first text, without
\* extraction and without a gate load, whatever the two file names; every
\* content uploaded with success is in the cache under its own hash with the
\* text extracted from it, and an upload answered with cached=false has done
\* its own extraction.
C6_SecondIsCached ==
  /\ \A u \in Uploads :
       (up[u].pc = "returned" /\ up[u].prior # NoText)
         => /\ up[u].result.ok /\ up[u].result.cached
            /\ up[u].result.text = up[u].prior
            /\ ~up[u].extracted /\ ~up[u].gateLoad
  /\ \A u \in Uploads :
       (up[u].pc = "returned" /\ up[u].result.ok /\ ~up[u].result.cached)
         => /\ up[u].extracted
            /\ up[u].result.text.src = up[u].bytes
  /\ \A b \in Bytes :
       firstText[b] # NoText
         => \E row \in cache : /\ row.file_hash = Hash(b)
                               /\ row.extracted_text = firstText[b]
                               /\ row.extracted_text.src = b

\* C6 witness: a second upload of bytes already uploaded under another file
\* name has returned from the cache, and another content is cached too.
C6_HitUnderOtherName ==
  \E u \in Uploads :
    /\ up[u].pc = "returned" /\ up[u].prior # NoText
    /\ up[u].result.cached
    /\ up[u].result.name # up[u].name
    /\ \E row \in cache : row.file_hash # Hash(up[u].bytes)

\* C21: in every state the gate can be in, load() on a loaded gate and
\* unload() on a gate that is not loaded change nothing, and load() followed
\* by unload(), however the load went, leaves the gate unloaded with no
\* handle held.
C21_LoadUnloadAlgebra ==
  /\ (gate.is_loaded => \A o \in LoadOutcomes : load(gate, o) = gate)
  /\ (~gate.is_loaded => unload(gate) = gate)
  /\ \A o \in LoadOutcomes : unload(load(gate, o)) = Unloaded

\* The last rows of a conversation, at most limit of them, oldest first.
MostRecent(rows, limit) ==
  SubSeq(rows, Len(rows) - Min(limit, Len(rows)) + 1, Len(rows))

\* C22: when chat() has built its turn list, the list is one system entry
\* (the caller's prompt when non-empty, else the default persona) followed
\* by the most recent messages of the conversation, at most 20, oldest
\* first, and its last entry is the user message this invocation saved.
C22_RecentWindow ==
  ch.pc = "start"
    => LET recent == MostRecent(OfConv(msgs, ch.conv), HistoryLimit) IN
         /\ Len(ch.sent) = Len(recent) + 1
         /\ Len(recent) <= HistoryLimit
         /\ Head(ch.sent).role = "system"
         /\ Head(ch.sent).content = (IF ch.prompt # "" THEN ch.prompt ELSE "persona")
         /\ \A i \in 1..Len(recent) :
              /\ ch.sent[i + 1].role = recent[i].role
              /\ ch.sent[i + 1].content = recent[i].text
         /\ Last(ch.sent).role = "user"
         /\ Last(ch.sent).content = ch.words

\* C23: of the upload calls that carry the same bytes, no two have both
\* extracted the text; the cache never holds two records of one hash; and a
\* call that goes to cache what it extracted returns a document result.
C23_ExtractOnce ==
  [][/\ \A u, v \in Uploads :
          (u # v /\ up[u].bytes = up[v].bytes
             /\ up[u].pc \in {"log", "insert"} /\ up[v].pc \in {"log", "insert"})
            => ~(up[u].pending.ok /\ up[v].pending.ok)
     /\ \A b \in Bytes : Cardinality({row \in cache : row.file_hash = Hash(b)}) <= 1
     /\ \A u \in Uploads :
          (up[u].pc = "insert" /\ up'[u].pc = "returned") => up'[u].result.ok]_vars

\* C24: a step that emits the done event or stores an assistant message
\* belongs to an invocation whose read loop was left on the [DONE] marker
\* (noted when the loop is left, up to the save).
C24_DoneOnlyAfterMarker ==
  [][/\ (Len(ch'.events) > Len(ch.events) /\ Last(ch'.events).type = "done")
          => "marker" \in {ch.end, ch'.end}
     /\ (Len(msgs') > Len(msgs) /\ Last(msgs').role = "assistant")
          => "marker" \in {ch.end, ch'.end}]_vars

\* The lifecycle state as the supervisor's own fields give it.  The manager
\* keeps no state field: not running (no handle, or a handle on a child that
\* has exited) is Stopped, and Failed is Stopped with a start failure just
\* reported; a live child whose start() call is still polling is Starting;
\* a live child with no start() call polling on it is Running.
Lifecycle ==
  IF ~is_running THEN "Stopped"
  ELSE IF \E c \in Starters : Polling(c) /\ st[c].spawned = process THEN "Starting"
  ELSE "Running"

\* C25: every change of the lifecycle state is Stopped to Starting, Starting
\* to Running, Starting to Stopped (by way of Failed, or a stop), or Running
\* to Stopped; and Running is entered only in the step in which the start()
\* call of the current child got status 200 from the health endpoint.
C25_Lifecycle ==
  [][Lifecycle' # Lifecycle
       => \/ (Lifecycle = "Stopped" /\ Lifecycle' = "Starting")
          \/ (Lifecycle = "Starting" /\ Lifecycle' = "Stopped")
          \/ (Lifecycle = "Running" /\ Lifecycle' = "Stopped")
          \/ (/\ Lifecycle = "Starting"
              /\ Lifecycle' = "Running"
              /\ \E c \in Starters :
                   /\ st[c].pc = "get" /\ st[c].spawned = process
                   /\ st'[c].pc = "returned" /\ st'[c].result = "ok")]_vars

\* C26: the cache holds at most one record per content hash; no step removes
\* or changes a record; a record is added only by an upload whose extraction
\* succeeded, with what it extracted; an upload that fails adds nothing; and
\* an upload that finds no record of its hash extracts.
C26_CacheImmutable ==
  [][/\ \A b \in Bytes : Cardinality({row \in cache' : row.file_hash = Hash(b)}) <= 1
     /\ cache \subseteq cache'
     /\ \A row \in cache' \ cache :
          \E u \in Uploads :
            /\ up[u].pc = "insert" /\ up[u].extracted /\ up[u].pending.ok
            /\ row = [file_hash |-> Hash(up[u].bytes),
                      original_name |-> up[u].name,
                      extracted_text |-> up[u].pending.text,
                      extraction_method |-> up[u].pending.method]
            /\ up'[u].pc = "returned" /\ up'[u].result.ok
     /\ \A u \in Uploads :
          (up[u].pc # "returned" /\ up'[u].pc = "returned" /\ ~up'[u].result.ok)
            => cache' = cache
     /\ \A u \in Uploads :
          (/\ up[u].pc = "lookup" /\ up'[u].pc # "lookup"
           /\ CacheLookup(Hash(up[u].bytes), up[u].name) = {})
            => up'[u].extracted]_vars

\* C26 witness: an upload that extracted has come back with a failure while
\* the cache holds the record another upload made of the same bytes under
\* another name.
C26_RecordKept ==
  \E u \in Uploads, row \in cache :
    /\ up[u].pc = "returned" /\ up[u].extracted /\ ~up[u].result.ok
    /\ row.file_hash = Hash(up[u].bytes)
    /\ row.original_name # up[u].name

\* C27: a step that changes a title is a step of title derivation in the
\* invocation under way; that invocation has emitted done, has produced and
\* saved a non-empty response, and its conversation held at most one message
\* before the user message of this turn (at most three now).
C27_TitleOnlyFirstDone ==
  [][title' # title
       => (/\ ch.pc \in {"title", "title_post"}
           /\ \A cv \in ConvIds : cv # ch.conv => title'[cv] = title[cv]
           /\ Last(ch.events).type = "done"
           /\ ch.full # <<>>
           /\ ch.saved
           /\ CountMessages(ch.conv) <= 3)]_vars

\* C27 witness: a conversation that held one message before this turn (a
\* user message left by an exchange that failed) has been titled by an
\* invocation that ended with done.
C27_TitledOnSecondMessage ==
  /\ ch.pc = "closed" /\ ch.result = "done" /\ ch.saved
  /\ title[ch.conv] # DefaultTitle
  /\ CountMessages(ch.conv) = 3

\* C28: a title written with the engine not running at title time is the
\* first five words of the user's message (all of them when there are
\* fewer), with the ellipsis exactly when the message has more than five.
C28_FallbackTitle ==
  [][(ch.pc = "title" /\ ~is_running /\ title' # title)
       => title'[ch.conv] = [kind |-> "fallback", n |-> Min(ch.words, 5),
                             ellipsis |-> (ch.words > 5)]]_vars

\* The handle is on a child that has exited and nothing has cleared it.
Exited == process # None /\ child[process] = "exited"

\* C29: with the handle on a child that has exited, the status reads not
\* running with no pid and no uptime; a health_check call made then returns
\* False at once; a chat request on an existing conversation made then is
\* answered Unavailable; and a start() call made then does not return as
\* already running: with the files in place it spawns a new child.
C29_ExitDetected ==
  [][Exited
       => (/\ get_status = [running |-> FALSE, pid |-> None, uptime |-> NoTime]
           /\ ((hc.pc = "idle" /\ hc'.pc # "idle")
                 => (hc'.pc = "returned" /\ hc'.result = "False"))
           /\ ((ch.pc = "idle" /\ ch'.pc # "idle" /\ ch'.found)
                 => ch'.result = "Unavailable")
           /\ \A c \in Starters :
                (st[c].pc = "idle" /\ st'[c].pc # "idle")
                  => (/\ st'[c].result # "already"
                      /\ \/ st'[c].result = "FileNotFoundError"
                         \/ (/\ process' # process
                             /\ child'[process'] = "alive"
                             /\ st'[c].spawned = process')))]_vars

\* C29 witness: the child of a start() call that returned success has
\* exited, the handle is still on it, and a health_check call made since has
\* returned False.
C29_ExitSeenByHealth ==
  /\ Exited
  /\ \E c \in Starters :
       st[c].pc = "returned" /\ st[c].result = "ok" /\ st[c].spawned = process
  /\ hc.pc = "returned" /\ hc.result = "False"

\* C30: a start() call that is polling (with its deadline within the time
\* the model follows) comes to its return, and the return that ends its
\* polling is success, the crash failure or the timeout failure.
C30_StartReturns ==
  /\ \A c \in Starters :
       (Polling(c) /\ st[c].deadline <= MaxTime) ~> (st[c].pc = "returned")
  /\ [][\A c \in Starters :
          (Polling(c) /\ st'[c].pc = "returned")
            => st'[c].result \in {"ok", "RuntimeError", "TimeoutError"}]_vars

\* C31: the step in which an upload runs its try block on the vision route
\* is that upload's alone and holds its load, its use and its unload of the
\* gate: no other upload moves in it, the gate it worked on was loaded when
\* the step began or was loaded by the step, and the step leaves the gate
\* unloaded; so no upload waits at a suspension point on a gate it loaded.
C31_GateAtomic ==
  [][\A u \in Uploads :
       (up[u].pc = "lookup" /\ up'[u].extracted /\ up'[u].route = "vision")
         => (/\ ~gate'.is_loaded
             /\ \A v \in Uploads \ {u} : up'[v] = up[v]
             /\ (up'[u].pending.ok /\ PdfPages(up[u].bytes) # 0)
                  => (gate.is_loaded \/ up'[u].gateLoad))]_vars

\* C31 witness: two uploads are in flight together, each has loaded the gate
\* and run its vision processing to a result, and the gate is unloaded.
C31_TwoVisionUploads ==
  /\ ~gate.is_loaded
  /\ \A u \in Uploads :
       /\ up[u].pc \in {"log", "insert"}
       /\ up[u].route = "vision" /\ up[u].gateLoad /\ up[u].pending.ok

\* C32: a start() call that is polling while the handle is no longer on the
\* child it spawned (a stop() has run to completion since) ends with the
\* crash failure or the timeout failure, and leaves the manager without a
\* handle and without a live child.
C32_StopDuringStart ==
  [][\A c \in Starters :
       (Polling(c) /\ process # st[c].spawned /\ st'[c].pc = "returned")
         => (/\ st'[c].result \in {"RuntimeError", "TimeoutError"}
             /\ process' = None
             /\ Alive' = {})]_vars

=============================================================================
